---- MODULE Spec2Model ----
(***************************************************************************)
(* Model of discover_servers (src/web/ui/src-tauri/src/lib.rs): a bounded- *)
(* time mDNS browse session.  Strings are sequences of one-character       *)
(* strings, so that trimming, splitting and formatting are computed.       *)
(* Time is in milliseconds and the call starts at time 0.  Time passes     *)
(* only while recv_timeout blocks; the straight-line code between two      *)
(* waits takes no time.  Addresses are IPv4.  The mdns_sd daemon is the    *)
(* environment: what its calls return is chosen nondeterministically.      *)
(***************************************************************************)
EXTENDS Integers, Sequences, FiniteSets, TLC

VARIABLES
    pc,            \* control position inside discover_servers
    now,           \* tokio::time::Instant::now(), ms
    deadline,      \* line 22
    wait,          \* line 31, the timeout of the wait in flight
    servers,       \* line 21, Vec<DiscoveredServer>
    result,        \* the value the call returns
    calls,         \* history: daemon API calls requested, in order ("!": it failed)
    waitIssuedAt,  \* history: the time the wait in flight was issued
    waited,        \* history: some wait has been issued
    lastOutcome,   \* history: kind of the outcome of the last finished wait
    log,           \* history: candidate records of the consumed resolved events
    atBreak,       \* history: servers at the moment the loop ended
    exitTime,      \* history: the time the loop ended
    failure,       \* history: the cause the failed daemon call reported
    inFlight,      \* number of offloaded recv_timeout tasks not yet joined
    events,        \* history: the ServiceInfo of the consumed resolved events
    twin           \* the list of a second session fed the same wait outcomes

vars == <<pc, now, deadline, wait, servers, result, calls, waitIssuedAt,
          waited, lastOutcome, log, atBreak, exitTime, failure, inFlight,
          events, twin>>

----------------------------------------------------------------------------
(* Bounds of the model *)

\* at most this many service-resolved events are consumed in one session
MaxEvents == 2
\* granularity of the clock while a wait is blocked, ms
TickStep == 250

(* Program constants *)
TotalBudget == 3000
PollSlice == 500

Min(a, b) == IF a <= b THEN a ELSE b

----------------------------------------------------------------------------
(* Strings *)

S_http == <<"h", "t", "t", "p", ":", "/", "/">>
S_colon == <<":">>
S_slash == <<"/">>
S_unknown == <<"u", "n", "k", "n", "o", "w", "n">>
S_OrbServer == <<"O", "r", "b", " ", "S", "e", "r", "v", "e", "r">>
S_initPrefix == <<"m", "d", "n", "s", " ", "i", "n", "i", "t", ":", " ">>
S_browsePrefix == <<"m", "d", "n", "s", " ", "b", "r", "o", "w", "s", "e", ":", " ">>

Digit(d) == <<"0", "1", "2", "3", "4", "5", "6", "7", "8", "9">>[d + 1]

\* Display of an unsigned integer (u8 octet, u16 port): decimal, no padding
RECURSIVE NatToString(_)
NatToString(n) ==
    IF n < 10 THEN <<Digit(n)>>
    ELSE NatToString(n \div 10) \o <<Digit(n % 10)>>

\* Display of an IPv4 address given as its four octets
IpToString(a) ==
    NatToString(a[1]) \o <<".">> \o NatToString(a[2]) \o <<".">>
        \o NatToString(a[3]) \o <<".">> \o NatToString(a[4])

\* str::trim_end_matches('.'): removes every trailing '.'
RECURSIVE TrimEndDots(_)
TrimEndDots(s) ==
    IF s # <<>> /\ s[Len(s)] = "."
    THEN TrimEndDots(SubSeq(s, 1, Len(s) - 1))
    ELSE s

\* str::split('.').next(): the text before the first '.', always Some
RECURSIVE UpToFirstDot(_)
UpToFirstDot(s) ==
    IF s = <<>> \/ Head(s) = "." THEN <<>>
    ELSE <<Head(s)>> \o UpToFirstDot(Tail(s))

SplitDotNext(s) == [some |-> TRUE, val |-> UpToFirstDot(s)]

UnwrapOr(opt, default) == IF opt.some THEN opt.val ELSE default

None == [some |-> FALSE, val |-> <<>>]
Some(v) == [some |-> TRUE, val |-> v]

----------------------------------------------------------------------------
(* The environment: what the daemon can resolve on the network *)

IP1 == <<10, 0, 0, 1>>
IP2 == <<10, 0, 0, 2>>

\* ServiceInfo values: fullname, addresses (a HashSet), hostname, port and
\* the TXT properties path and version (each an Option)
Infos == {
    [fullname |-> <<"a", ".", "o">>, addresses |-> {IP1}, hostname |-> <<"h", ".">>,
     port |-> 80, path |-> Some(<<"/", "p">>), version |-> Some(<<"1">>)],
    [fullname |-> <<>>, addresses |-> {IP1, IP2}, hostname |-> <<"g", ".", ".">>,
     port |-> 80, path |-> Some(<<"/", "p">>), version |-> None],
    [fullname |-> <<".", "o">>, addresses |-> {}, hostname |-> <<"h", ".">>,
     port |-> 9000, path |-> None, version |-> None],
    [fullname |-> <<"b", ".", "o">>, addresses |-> {IP1}, hostname |-> <<"h", ".">>,
     port |-> 80, path |-> None, version |-> Some(<<"2">>)]
}

\* Display texts of the errors ServiceDaemon::new and browse can return
Causes == { <<"E", "1">>, <<"E", "2">> }

----------------------------------------------------------------------------
(* Pure parts of discover_servers *)

\* variant of HostOf: the hostname is used as advertised, root dot included
HostOf_NoTrim(info, firstAddr) ==
    IF firstAddr.some THEN IpToString(firstAddr.val)
    ELSE info.hostname

\* lines 34-41; firstAddr is the Option that addresses.iter().next() gave
HostOf(info, firstAddr) ==
    IF firstAddr.some THEN IpToString(firstAddr.val)
    ELSE TrimEndDots(info.hostname)

\* the values addresses.iter().next() can give: any element of the HashSet
FirstAddrChoices(info) ==
    IF info.addresses = {} THEN {None}
    ELSE { Some(a) : a \in info.addresses }

PathOf(info) == UnwrapOr(info.path, S_slash)
\* variant of VersionOf: the version is looked up under the key of line 46
VersionOf_FromPath(info) == UnwrapOr(info.path, S_unknown)
VersionOf(info) == UnwrapOr(info.version, S_unknown)
FormatUrl(host, port, path) ==
    S_http \o host \o S_colon \o NatToString(port) \o path
NameOf(info) == UnwrapOr(SplitDotNext(info.fullname), S_OrbServer)

\* lines 34-60: the candidate record of a resolved event
Candidate(info, firstAddr) ==
    [name |-> NameOf(info),
     host |-> HostOf(info, firstAddr),
     port |-> info.port,
     url |-> FormatUrl(HostOf(info, firstAddr), info.port, PathOf(info)),
     version |-> VersionOf(info)]

\* variant of PushIfNew: the url check is missing
PushIfNew_Always(list, rec) == Append(list, rec)

\* variant of PushIfNew: a new record goes to the front of the list
PushIfNew_Front(list, rec) ==
    IF ~ \E i \in 1..Len(list) : list[i].url = rec.url
    THEN <<rec>> \o list
    ELSE list

\* variant of PushIfNew: a later event replaces the record of its url
PushIfNew_Replace(list, rec) ==
    IF ~ \E i \in 1..Len(list) : list[i].url = rec.url
    THEN Append(list, rec)
    ELSE [i \in 1..Len(list) |-> IF list[i].url = rec.url THEN rec ELSE list[i]]

\* variant of PushIfNew: records are compared by host and port only
PushIfNew_ByHostPort(list, rec) ==
    IF ~ \E i \in 1..Len(list) : list[i].host = rec.host /\ list[i].port = rec.port
    THEN Append(list, rec)
    ELSE list

\* lines 62-70
PushIfNew(list, rec) ==
    IF ~ \E i \in 1..Len(list) : list[i].url = rec.url
    THEN Append(list, rec)
    ELSE list

\* line 25: deadline.saturating_duration_since(now)
Remaining(d, n) == IF d > n THEN d - n ELSE 0

\* variant of WaitTimeout: the slice is not capped by the remaining time
WaitTimeout_SliceOnly(remaining) == PollSlice

\* line 31
WaitTimeout(remaining) == Min(remaining, PollSlice)

\* Result<Vec<DiscoveredServer>, String>, and no value while the call runs
NoResult == [kind |-> "None", servers |-> <<>>, msg |-> <<>>]
Ok(list) == [kind |-> "Ok", servers |-> list, msg |-> <<>>]
Err(msg) == [kind |-> "Err", servers |-> <<>>, msg |-> msg]

----------------------------------------------------------------------------
Init ==
    /\ pc = "new"
    /\ now = 0
    /\ deadline = 0
    /\ wait = 0
    /\ servers = <<>>
    /\ result = NoResult
    /\ calls = <<>>
    /\ waitIssuedAt = 0
    /\ waited = FALSE
    /\ lastOutcome = "None"
    /\ log = <<>>
    /\ atBreak = <<>>
    /\ exitTime = 0
    /\ failure = <<>>
    /\ inFlight = 0
    /\ events = <<>>
    /\ twin = <<>>

\* line 16, ServiceDaemon::new() succeeds
DaemonNewOk ==
    /\ pc = "new"
    /\ calls' = Append(calls, "new")
    /\ pc' = "browse"
    /\ UNCHANGED <<now, deadline, wait, servers, result, waitIssuedAt, waited,
                   lastOutcome, log, atBreak, exitTime, failure,
                   inFlight, events, twin>>

\* variant of DaemonNewFail: the failed daemon is shut down before returning
DaemonNewFail_Teardown(cause) ==
    /\ pc = "new"
    /\ calls' = calls \o <<"new!", "shutdown!">>
    /\ failure' = cause
    /\ result' = Err(S_initPrefix \o cause)
    /\ pc' = "done"
    /\ UNCHANGED <<now, deadline, wait, servers, waitIssuedAt, waited,
                   lastOutcome, log, atBreak, exitTime,
                   inFlight, events, twin>>

\* line 16, ServiceDaemon::new() fails: map_err and ?
DaemonNewFail(cause) ==
    /\ pc = "new"
    /\ calls' = Append(calls, "new!")
    /\ failure' = cause
    /\ result' = Err(S_initPrefix \o cause)
    /\ pc' = "done"
    /\ UNCHANGED <<now, deadline, wait, servers, waitIssuedAt, waited,
                   lastOutcome, log, atBreak, exitTime,
                   inFlight, events, twin>>

\* lines 17-22, browse succeeds; the list and the deadline are set up
BrowseOk ==
    /\ pc = "browse"
    /\ calls' = Append(calls, "browse")
    /\ servers' = <<>>
    /\ deadline' = now + TotalBudget
    /\ pc' = "loop"
    /\ UNCHANGED <<now, wait, result, waitIssuedAt, waited, lastOutcome, log,
                   atBreak, exitTime, failure,
                   inFlight, events, twin>>

\* variant of BrowseFail: the error is reported with the prefix of line 16
BrowseFail_InitPrefix(cause) ==
    /\ pc = "browse"
    /\ calls' = Append(calls, "browse!")
    /\ failure' = cause
    /\ result' = Err(S_initPrefix \o cause)
    /\ pc' = "done"
    /\ UNCHANGED <<now, deadline, wait, servers, waitIssuedAt, waited,
                   lastOutcome, log, atBreak, exitTime,
                   inFlight, events, twin>>

\* lines 17-19, browse fails: map_err and ?
BrowseFail(cause) ==
    /\ pc = "browse"
    /\ calls' = Append(calls, "browse!")
    /\ failure' = cause
    /\ result' = Err(S_browsePrefix \o cause)
    /\ pc' = "done"
    /\ UNCHANGED <<now, deadline, wait, servers, waitIssuedAt, waited,
                   lastOutcome, log, atBreak, exitTime,
                   inFlight, events, twin>>

\* variant of LoopBreak: continue instead of break
LoopBreak_Continue ==
    /\ pc = "loop"
    /\ Remaining(deadline, now) = 0
    /\ pc' = "loop"
    /\ UNCHANGED <<now, deadline, wait, servers, result, calls, waitIssuedAt,
                   waited, lastOutcome, log, atBreak, exitTime, failure,
                   inFlight, events, twin>>

\* variant of LoopBreak: the subscription is not stopped before the shutdown
LoopBreak_SkipStop ==
    /\ pc = "loop"
    /\ Remaining(deadline, now) = 0
    /\ pc' = "shutdown"
    /\ atBreak' = servers
    /\ exitTime' = now
    /\ UNCHANGED <<now, deadline, wait, servers, result, calls, waitIssuedAt,
                   waited, lastOutcome, log, failure, inFlight, events, twin>>

\* lines 25-28: the deadline has been reached, break
LoopBreak ==
    /\ pc = "loop"
    /\ Remaining(deadline, now) = 0
    /\ pc' = "stop_browse"
    /\ atBreak' = servers
    /\ exitTime' = now
    /\ UNCHANGED <<now, deadline, wait, servers, result, calls, waitIssuedAt,
                   waited, lastOutcome, log, failure,
                   inFlight, events, twin>>

\* variant of IssueWait: the offloaded task is not awaited
IssueWait_NoAwait ==
    /\ pc = "loop"
    /\ Remaining(deadline, now) # 0
    /\ inFlight < 2
    /\ wait' = WaitTimeout(Remaining(deadline, now))
    /\ waitIssuedAt' = now
    /\ waited' = TRUE
    /\ lastOutcome' = "None"
    /\ inFlight' = inFlight + 1
    /\ pc' = "loop"
    /\ UNCHANGED <<now, deadline, servers, result, calls, log, atBreak, exitTime,
                   failure, events, twin>>

\* variant of IssueWait: the wait is issued without the check of lines 26-28
IssueWait_NoDeadlineCheck ==
    /\ pc = "loop"
    /\ wait' = WaitTimeout(Remaining(deadline, now))
    /\ waitIssuedAt' = now
    /\ waited' = TRUE
    /\ lastOutcome' = "None"
    /\ inFlight' = inFlight + 1
    /\ pc' = "waiting"
    /\ UNCHANGED <<now, deadline, servers, result, calls, log, atBreak, exitTime,
                   failure, events, twin>>

\* lines 25-32: time remains, a blocking recv_timeout is offloaded
IssueWait ==
    /\ pc = "loop"
    /\ Remaining(deadline, now) # 0
    /\ wait' = WaitTimeout(Remaining(deadline, now))
    /\ waitIssuedAt' = now
    /\ waited' = TRUE
    /\ lastOutcome' = "None"
    /\ pc' = "waiting"
    /\ inFlight' = inFlight + 1
    /\ UNCHANGED <<now, deadline, servers, result, calls, log, atBreak, exitTime, failure,
                   events, twin>>

\* the clock advances while recv_timeout blocks, up to its timeout
Tick ==
    /\ pc = "waiting"
    /\ now < waitIssuedAt + wait
    /\ now' = Min(now + TickStep, waitIssuedAt + wait)
    /\ UNCHANGED <<pc, deadline, wait, servers, result, calls, waitIssuedAt,
                   waited, lastOutcome, log, atBreak, exitTime, failure,
                   inFlight, events, twin>>

\* line 72: an outcome that is not a resolved event; the loop continues
Continue(kind) ==
    /\ pc' = "loop"
    /\ lastOutcome' = kind
    /\ wait' = 0
    /\ waitIssuedAt' = 0
    /\ inFlight' = inFlight - 1
    /\ UNCHANGED <<now, deadline, servers, result, calls, waited, log, atBreak,
                   exitTime, failure,
                   events, twin>>

\* Ok(Err(RecvTimeoutError::Timeout)): the timeout has expired
RecvTimeout ==
    /\ pc = "waiting"
    /\ now = waitIssuedAt + wait
    /\ Continue("Timeout")

\* Ok(Ok(event)) with an event that is not ServiceResolved
RecvOtherEvent ==
    /\ pc = "waiting"
    /\ Continue("OtherEvent")

\* Ok(Err(RecvTimeoutError::Disconnected))
RecvError ==
    /\ pc = "waiting"
    /\ Continue("RecvError")

\* variant of JoinError: the failure of the task is propagated to the caller
JoinError_Propagated ==
    /\ pc = "waiting"
    /\ result' = Err(<<"j", "o", "i", "n">>)
    /\ lastOutcome' = "JoinError"
    /\ pc' = "done"
    /\ inFlight' = inFlight - 1
    /\ UNCHANGED <<now, deadline, wait, servers, calls, waitIssuedAt, waited,
                   log, atBreak, exitTime, failure,
                   events, twin>>

\* Err(JoinError): the offloaded task failed
JoinError ==
    /\ pc = "waiting"
    /\ Continue("JoinError")

\* lines 33-71: Ok(Ok(ServiceResolved(info))).  The second session consumes
\* the same event; its HashSet may yield another first address.
RecvResolved(info, firstAddr) ==
    /\ pc = "waiting"
    /\ Len(log) < MaxEvents
    /\ servers' = PushIfNew(servers, Candidate(info, firstAddr))
    /\ \E other \in FirstAddrChoices(info) :
           twin' = PushIfNew(twin, Candidate(info, other))
    /\ log' = Append(log, Candidate(info, firstAddr))
    /\ events' = Append(events, info)
    /\ lastOutcome' = "Resolved"
    /\ inFlight' = inFlight - 1
    /\ pc' = "loop"
    /\ wait' = 0
    /\ waitIssuedAt' = 0
    /\ UNCHANGED <<now, deadline, result, calls, waited, atBreak, exitTime, failure>>

\* variant of StopBrowse: a failure is propagated with ?
StopBrowse_Propagated(ok) ==
    /\ pc = "stop_browse"
    /\ calls' = Append(calls, IF ok THEN "stop_browse" ELSE "stop_browse!")
    /\ result' = IF ok THEN result ELSE Err(<<"s", "t", "o", "p">>)
    /\ pc' = IF ok THEN "shutdown" ELSE "done"
    /\ UNCHANGED <<now, deadline, wait, servers, waitIssuedAt, waited,
                   lastOutcome, log, atBreak, exitTime, failure,
                   inFlight, events, twin>>

\* line 76: let _ = mdns.stop_browse(..); ok tells whether it succeeded
StopBrowse(ok) ==
    /\ pc = "stop_browse"
    /\ calls' = Append(calls, IF ok THEN "stop_browse" ELSE "stop_browse!")
    /\ pc' = "shutdown"
    /\ UNCHANGED <<now, deadline, wait, servers, result, waitIssuedAt, waited,
                   lastOutcome, log, atBreak, exitTime, failure,
                   inFlight, events, twin>>

\* variant of Shutdown: an empty list is reported as an error
Shutdown_EmptyIsError(ok) ==
    /\ pc = "shutdown"
    /\ calls' = Append(calls, IF ok THEN "shutdown" ELSE "shutdown!")
    /\ result' = IF servers = <<>> THEN Err(<<"n", "o", "n", "e">>) ELSE Ok(servers)
    /\ pc' = "done"
    /\ UNCHANGED <<now, deadline, wait, servers, waitIssuedAt, waited,
                   lastOutcome, log, atBreak, exitTime, failure,
                   inFlight, events, twin>>

\* lines 77-79: let _ = mdns.shutdown(); Ok(servers)
Shutdown(ok) ==
    /\ pc = "shutdown"
    /\ calls' = Append(calls, IF ok THEN "shutdown" ELSE "shutdown!")
    /\ result' = Ok(servers)
    /\ pc' = "done"
    /\ UNCHANGED <<now, deadline, wait, servers, waitIssuedAt, waited,
                   lastOutcome, log, atBreak, exitTime, failure,
                   inFlight, events, twin>>

Next ==
    \/ DaemonNewOk
    \/ \E c \in Causes : DaemonNewFail(c)
    \/ BrowseOk
    \/ \E c \in Causes : BrowseFail(c)
    \/ LoopBreak
    \/ IssueWait
    \/ Tick
    \/ RecvTimeout
    \/ RecvOtherEvent
    \/ RecvError
    \/ JoinError
    \/ \E info \in Infos : \E fa \in FirstAddrChoices(info) : RecvResolved(info, fa)
    \/ \E ok \in BOOLEAN : StopBrowse(ok)
    \/ \E ok \in BOOLEAN : Shutdown(ok)

Spec == Init /\ [][Next]_vars

\* the steps of the task itself: everything but the passing of time
Program ==
    \/ DaemonNewOk
    \/ \E c \in Causes : DaemonNewFail(c)
    \/ BrowseOk
    \/ \E c \in Causes : BrowseFail(c)
    \/ LoopBreak
    \/ IssueWait
    \/ RecvTimeout
    \/ RecvOtherEvent
    \/ RecvError
    \/ JoinError
    \/ \E info \in Infos : \E fa \in FirstAddrChoices(info) : RecvResolved(info, fa)
    \/ \E ok \in BOOLEAN : StopBrowse(ok)
    \/ \E ok \in BOOLEAN : Shutdown(ok)

\* The runtime keeps polling the task and every recv_timeout returns by its
\* timeout (weak fairness of the task's steps); the clock advances (strong
\* fairness of Tick: a wait that returns at once, again and again, does not
\* stop the clock).
FairSpec == Spec /\ WF_vars(Program) /\ SF_vars(Tick)

----------------------------------------------------------------------------
(* Vocabulary of the properties *)

\* the daemon was initialized (line 16 succeeded)
DaemonUp == Len(calls) >= 1 /\ calls[1] = "new"
\* the session was started: daemon initialized and browse started
Started == Len(calls) >= 2 /\ calls[1] = "new" /\ calls[2] = "browse"
InitFailed == Len(calls) >= 1 /\ calls[1] = "new!"
BrowseFailed == Len(calls) >= 2 /\ calls[2] = "browse!"
LoopEnded == pc \in {"stop_browse", "shutdown", "done"} /\ Started
ShutdownRequested == \E i \in 1..Len(calls) : calls[i] \in {"shutdown", "shutdown!"}
StopRequested == \E i \in 1..Len(calls) : calls[i] \in {"stop_browse", "stop_browse!"}

Urls(list) == { list[i].url : i \in 1..Len(list) }
\* position in the log of the first consumed resolved event that gave url u
FirstAt(u) == CHOOSE k \in 1..Len(log) :
    /\ log[k].url = u
    /\ \A m \in 1..(k - 1) : log[m].url # u

OnePerUrlFirstWins(list) ==
    /\ \A i, j \in 1..Len(list) : list[i].url = list[j].url => i = j
    /\ Urls(list) = Urls(log)
    /\ \A i \in 1..Len(list) : list[i] = log[FirstAt(list[i].url)]

----------------------------------------------------------------------------
(* Properties *)

\* C1: the list holds exactly one record per distinct url derived from the
\* consumed resolved events, and the record of a url is the one derived from
\* the first consumed event with that url; this holds of the accumulated list
\* in every state and of the list the call returns.
C1_OnePerUrlFirstWins ==
    /\ OnePerUrlFirstWins(servers)
    /\ (pc = "done" /\ result.kind = "Ok") => OnePerUrlFirstWins(result.servers)

\* a later event with the url of an earlier one, and other metadata, was
\* consumed and the call has returned
C1_Witness ==
    /\ pc = "done" /\ result.kind = "Ok"
    /\ Len(result.servers) = 1
    /\ Len(log) = 2 /\ log[1].url = log[2].url /\ log[1] # log[2]

\* C2: on every path on which the daemon was initialized, a daemon shutdown
\* has been requested when the call returns.
C2_ShutdownOnEveryPath ==
    (pc = "done" /\ DaemonUp) => ShutdownRequested

\* C3: once the session is started the call never returns an error, whatever
\* the waits yield, and the loop is never left before the deadline.
C3_OnlySuccessAfterStart ==
    Started =>
        /\ result.kind # "Err"
        /\ (pc = "done" => result.kind = "Ok")
        /\ (pc \in {"stop_browse", "shutdown", "done"} => now >= deadline)
        /\ (pc \in {"loop", "waiting"} => result.kind = "None")

\* a failed offloaded task was the last outcome and the call returned success
C3_Witness ==
    /\ pc = "done" /\ Started /\ result.kind = "Ok"
    /\ lastOutcome = "JoinError"

\* C4: a started session eventually returns, provided the clock advances and
\* every wait returns within its timeout.
C4_Terminates == (pc = "loop") ~> (pc = "done")

\* the call returned after a session whose last receive failed and that
\* consumed no event
C4_Witness ==
    /\ pc = "done" /\ Started
    /\ lastOutcome = "RecvError" /\ log = <<>>

\* C5: a wait in flight has timeout min(deadline - time of issue, 500 ms),
\* which is positive, and was issued before the deadline; the loop ends at or
\* after the deadline and less than one slice past it.
C5_SlicedWaits ==
    /\ pc = "waiting" =>
        /\ wait = Min(deadline - waitIssuedAt, PollSlice)
        /\ wait > 0
        /\ waitIssuedAt < deadline
    /\ LoopEnded =>
        /\ exitTime >= deadline
        /\ exitTime - deadline < PollSlice
    /\ Started => deadline = TotalBudget

\* a wait whose timeout is the remaining time, shorter than a slice
C5_Witness ==
    /\ pc = "waiting"
    /\ wait = deadline - waitIssuedAt
    /\ wait < PollSlice

\* C6: when daemon initialization fails the call returns the init error with
\* the cause, and nothing else was requested: no browse, no wait, no teardown.
C6_InitFailure ==
    InitFailed =>
        /\ pc = "done"
        /\ result = Err(S_initPrefix \o failure)
        /\ failure \in Causes
        /\ calls = <<"new!">>
        /\ ~ waited

C6_Witness == pc = "done" /\ InitFailed /\ result.kind = "Err"

\* C7: when browse fails the call returns the browse error with the cause;
\* no wait was issued and no record collected.
C7_BrowseFailure ==
    BrowseFailed =>
        /\ pc = "done"
        /\ result = Err(S_browsePrefix \o failure)
        /\ failure \in Causes
        /\ ~ waited
        /\ servers = <<>> /\ log = <<>>

C7_Witness == pc = "done" /\ BrowseFailed /\ result.kind = "Err"

\* C8: whatever the two teardown steps return, the call returns success with
\* the list accumulated when the loop ended, and the shutdown is requested
\* also when stop-browse failed.
C8_TeardownErrorsIgnored ==
    /\ (pc = "done" /\ StopRequested) =>
        /\ result = Ok(atBreak)
        /\ ShutdownRequested
    /\ (pc = "shutdown") => (StopRequested /\ servers = atBreak)

\* both teardown steps failed and a non-empty list was returned
C8_Witness ==
    /\ pc = "done"
    /\ calls = <<"new", "browse", "stop_browse!", "shutdown!">>
    /\ result.kind = "Ok" /\ result.servers # <<>>

\* C9: a session in which no wait yielded a resolved event returns success
\* with the empty list.
C9_EmptyIsSuccess ==
    (pc = "done" /\ Started /\ log = <<>>) => result = Ok(<<>>)

\* the session waited, only a timeout-like outcome came, and it returned
C9_Witness ==
    /\ pc = "done" /\ Started /\ waited
    /\ log = <<>> /\ lastOutcome = "Timeout"
    /\ result.kind = "Ok"

\* C10: the list is ordered by first occurrence in the order of consumption.
C10_FirstSeenOrder ==
    LET Ordered(list) ==
            \A i, j \in 1..Len(list) :
                (i < j /\ list[i].url \in Urls(log) /\ list[j].url \in Urls(log))
                    => FirstAt(list[i].url) < FirstAt(list[j].url)
    IN  /\ Urls(servers) \subseteq Urls(log)
        /\ Ordered(servers)
        /\ (pc = "done" /\ result.kind = "Ok") =>
               (Urls(result.servers) \subseteq Urls(log) /\ Ordered(result.servers))

\* two records were returned
C10_Witness ==
    /\ pc = "done" /\ result.kind = "Ok"
    /\ Len(result.servers) = 2

----------------------------------------------------------------------------
(* Vocabulary of the properties about records and events *)

IsPrefix(a, b) == Len(a) <= Len(b) /\ SubSeq(b, 1, Len(a)) = a
Dots(n) == [i \in 1..n |-> "."]
\* h is s without its trailing dots
IsTrimOf(h, s) ==
    /\ h = <<>> \/ h[Len(h)] # "."
    /\ \E n \in 0..Len(s) : s = h \o Dots(n)
NonResolved == {"Timeout", "OtherEvent", "RecvError", "JoinError"}
\* the path a resolved event advertises, or "/"
PathOrRoot(e) == IF e.path.some THEN e.path.val ELSE <<"/">>
UrlText(host, port, path) ==
    <<"h", "t", "t", "p", ":", "/", "/">> \o host \o <<":">> \o NatToString(port) \o path

\* C11: at most one offloaded wait is outstanding, it is outstanding exactly
\* while the loop awaits it, a wait is issued only when none is outstanding,
\* and the list changes only in the step that takes the outcome of the wait.
C11_OneWaitInFlight ==
    [][ /\ inFlight \in {0, 1} /\ inFlight' \in {0, 1}
        /\ (inFlight = 1) <=> (pc = "waiting")
        /\ (inFlight' > inFlight) => (inFlight = 0 /\ servers' = servers)
        /\ (inFlight = 1 /\ inFlight' = 1) => servers' = servers
        /\ (servers' # servers) => (inFlight = 1 /\ inFlight' = 0) ]_vars

\* a wait is outstanding, time has passed in it, and the list is not empty
C11_Witness ==
    /\ pc = "waiting" /\ inFlight = 1
    /\ now > waitIssuedAt
    /\ servers # <<>>

\* C12: on the success path stop-browse is requested once, after the loop,
\* then shutdown once; after the stop-browse request no wait is outstanding
\* or issued and the list no longer changes; the call returns after both.
C12_TeardownOnceInOrder ==
    Started =>
        /\ (pc \in {"loop", "waiting", "stop_browse"}) => calls = <<"new", "browse">>
        /\ (pc = "shutdown") =>
               (Len(calls) = 3 /\ calls[3] \in {"stop_browse", "stop_browse!"})
        /\ (pc = "done") =>
               /\ Len(calls) = 4
               /\ calls[3] \in {"stop_browse", "stop_browse!"}
               /\ calls[4] \in {"shutdown", "shutdown!"}
        /\ (pc \in {"stop_browse", "shutdown", "done"}) =>
               (inFlight = 0 /\ servers = atBreak /\ now >= deadline)

\* the call returned a record after exactly the two teardown requests
C12_Witness ==
    /\ pc = "done" /\ Started
    /\ Len(calls) = 4
    /\ result.kind = "Ok" /\ result.servers # <<>>

\* C13: a second session fed the same wait outcomes holds, and returns, the
\* same list.
C13_Reproducible ==
    /\ twin = servers
    /\ (pc = "done" /\ result.kind = "Ok") => result.servers = twin

\* C14: every step leaves the list a prefix of the new list and appends at
\* most one record; a wait outcome that is no resolved event leaves it as is.
C14_AppendOnly ==
    [][ /\ IsPrefix(servers, servers')
        /\ Len(servers') <= Len(servers) + 1
        /\ (pc = "waiting" /\ lastOutcome' \in NonResolved) => servers' = servers
      ]_vars

\* two records are held and a later wait gave another kind of event
C14_Witness ==
    /\ pc = "loop" /\ lastOutcome = "OtherEvent"
    /\ Len(servers) = 2

\* C15: the candidate of a resolved event with addresses has one of them,
\* rendered as text, as host; the candidate of an event without addresses
\* exists, its host is the hostname without trailing dots, its url is built
\* from that host, and a record with that url is in the list.
C15_HostSelection ==
    /\ Len(events) = Len(log)
    /\ \A k \in 1..Len(log) :
        LET e == events[k]
            r == log[k]
        IN  /\ (e.addresses # {}) =>
                   \E a \in e.addresses : r.host = IpToString(a)
            /\ (e.addresses = {}) =>
                   /\ IsTrimOf(r.host, e.hostname)
                   /\ IsPrefix(UrlText(r.host, e.port, <<>>), r.url)
            /\ \E i \in 1..Len(servers) : servers[i].url = r.url

\* an event without addresses and one with addresses were consumed, and the
\* returned list holds the record with the trimmed hostname
C15_Witness ==
    /\ pc = "done" /\ result.kind = "Ok"
    /\ \E k \in 1..Len(events) : events[k].addresses = {}
    /\ \E k \in 1..Len(events) : events[k].addresses # {}
    /\ \E i \in 1..Len(result.servers) : result.servers[i].host = <<"h">>

\* C16: every resolved event gives a candidate; its url ends with the path
\* the event advertises, or "/", right after host:port, and its version is the
\* version the event advertises, or "unknown", each whatever the other key.
C16_MetadataDefaults ==
    /\ Len(events) = Len(log)
    /\ \A k \in 1..Len(log) :
        LET e == events[k]
            r == log[k]
        IN  /\ r.url = UrlText(r.host, e.port, PathOrRoot(e))
            /\ r.version = (IF e.version.some THEN e.version.val
                            ELSE <<"u", "n", "k", "n", "o", "w", "n">>)
            /\ r.port = e.port

\* an event with a version and no path and one with a path and no version
\* were consumed
C16_Witness ==
    /\ pc = "done" /\ result.kind = "Ok" /\ Len(result.servers) = 2
    /\ \E k \in 1..Len(events) : ~ events[k].path.some /\ events[k].version.some
    /\ \E k \in 1..Len(events) : events[k].path.some /\ ~ events[k].version.some

\* C17: the name of a candidate is the text before the first '.' of the
\* fullname, and "Orb Server" when there is no such text.
C17_NameOrFallback ==
    \A k \in 1..Len(log) :
        (Len(events) = Len(log)) =>
            log[k].name = (IF UpToFirstDot(events[k].fullname) = <<>>
                           THEN <<"O", "r", "b", " ", "S", "e", "r", "v", "e", "r">>
                           ELSE UpToFirstDot(events[k].fullname))

\* C18: the url of every record in the list is http://host:port followed by
\* the path of the event that created it; two consumed events with the same
\* host and port and different paths have two records, and two with the same
\* host, port and path have one.
C18_UrlIsKey ==
    /\ Len(events) = Len(log)
    /\ \A i \in 1..Len(servers) :
        LET r == servers[i]
        IN  /\ r.url \in Urls(log)
            /\ r.url = UrlText(r.host, r.port, PathOrRoot(events[FirstAt(r.url)]))
    /\ \A k1, k2 \in 1..Len(log) :
        (log[k1].host = log[k2].host /\ log[k1].port = log[k2].port) =>
            LET same == PathOrRoot(events[k1]) = PathOrRoot(events[k2])
                recs == { i \in 1..Len(servers) :
                            servers[i].url \in {log[k1].url, log[k2].url} }
            IN  Cardinality(recs) = (IF same THEN 1 ELSE 2)

\* two records with the same host and port and different urls were returned
C18_Witness ==
    /\ pc = "done" /\ result.kind = "Ok" /\ Len(result.servers) = 2
    /\ result.servers[1].host = result.servers[2].host
    /\ result.servers[1].port = result.servers[2].port
    /\ result.servers[1].url # result.servers[2].url

\* C19: a resolved event is consumed only from a wait issued before the
\* deadline, and is then processed whatever the time of its return; the list
\* changes only then, nothing changes once the loop has ended, and the
\* returned records all stem from consumed events.
C19_OnlyWaitsBeforeDeadline ==
    [][ /\ (log' # log) =>
               /\ pc = "waiting" /\ waitIssuedAt < deadline
               /\ log'[Len(log')].url \in Urls(servers')
        /\ (servers' # servers) => (log' # log)
        /\ (pc \in {"stop_browse", "shutdown", "done"}) =>
               (log' = log /\ servers' = servers)
        /\ (pc' = "done" /\ result'.kind = "Ok") =>
               (result'.servers = servers /\ Urls(servers) \subseteq Urls(log))
      ]_vars

\* the last wait returned a resolved event at the deadline and its record is
\* the returned list
C19_Witness ==
    /\ pc = "done" /\ result.kind = "Ok"
    /\ lastOutcome = "Resolved" /\ exitTime = now /\ now >= deadline
    /\ Len(log) = 1 /\ result.servers = <<log[1]>>

====
